---- MODULE Spec2Model ----
(***************************************************************************)
(* A model of vibed-pathfinder: buildGraph (graph-builder.ts,              *)
(* graph-validator.ts), the priority queue (priority-queue.ts), findPaths  *)
(* (path-finder.ts) and analyzeGraph (graph-analyzer.ts).                  *)
(*                                                                         *)
(* JavaScript values are records [t, k, s, n]: t is the result of typeof,  *)
(* k tells the kinds of one type apart (a finite number, NaN, Infinity;    *)
(* null, an object), s is the text of a string and n the value of a finite *)
(* number.  Graph is a Map: a sequence of entries in insertion order.      *)
(***************************************************************************)
EXTENDS Integers, Sequences, FiniteSets, TLC

VARIABLES edges, graphResult, graph, pc, pathResult, analysis, calls,
          queries, heap, frontiers

vars == <<edges, graphResult, graph, pc, pathResult, analysis, calls,
          queries, heap, frontiers>>

---------------------------------------------------------------------------
(* JavaScript values                                                       *)

Str(s) == [t |-> "string", k |-> "str", s |-> s, n |-> 0]
Num(n) == [t |-> "number", k |-> "fin", s |-> "", n |-> n]
NaN == [t |-> "number", k |-> "nan", s |-> "", n |-> 0]
PosInf == [t |-> "number", k |-> "inf", s |-> "", n |-> 0]
Null == [t |-> "object", k |-> "null", s |-> "", n |-> 0]
Undefined == [t |-> "undefined", k |-> "undef", s |-> "", n |-> 0]

typeof(x) == x.t

isNaN(x) == x.k = "nan"

isFinite(x) == x.k = "fin"

\* x === y: as equality of values, except that NaN is not equal to itself.
StrictEq(x, y) == x = y /\ ~isNaN(x)

\* !x: undefined, null, 0, NaN and "" are falsy.
Falsy(x) ==
    \/ x = Undefined
    \/ x = Null
    \/ x.t = "number" /\ (x.k = "nan" \/ (x.k = "fin" /\ x.n = 0))
    \/ x.t = "string" /\ x.s = ""

\* x < y on numbers: false when either is NaN.
NumLess(x, y) ==
    CASE isNaN(x) \/ isNaN(y) -> FALSE
      [] x.k = "inf" -> FALSE
      [] y.k = "inf" -> TRUE
      [] OTHER -> x.n < y.n

\* x + y on numbers that are not negative infinity.
NumPlus(x, y) ==
    CASE isNaN(x) \/ isNaN(y) -> NaN
      [] x.k = "inf" \/ y.k = "inf" -> PosInf
      [] OTHER -> Num(x.n + y.n)

---------------------------------------------------------------------------
(* JavaScript numbers that are no integers: IEEE 754 doubles               *)
(*                                                                         *)
(* A positive double is [exp, bits]: bits[1] = 1 and its value is          *)
(* (bits[1] + bits[2]/2 + ... + bits[53]/2^52) * 2^exp.  Zero has no bits. *)

MantissaBits == 53

DoubleZero == [exp |-> 0, bits |-> <<>>]

\* num / den as (num' / den') * 2^exp with 1 <= num' / den' < 2.
RECURSIVE normalizeQuotient(_, _)
normalizeQuotient(num, den) ==
    IF num >= 2 * den
    THEN [normalizeQuotient(num, 2 * den) EXCEPT !.exp = @ + 1]
    ELSE IF num < den
    THEN [normalizeQuotient(2 * num, den) EXCEPT !.exp = @ - 1]
    ELSE [exp |-> 0, num |-> num, den |-> den]

\* The remainders of the long division r / den, for r < den: the k-th is
\* what is left behind the first k - 1 binary digits of the quotient.
RECURSIVE quotientRests(_, _, _)
quotientRests(r, den, k) ==
    IF k = 0 THEN <<r>>
    ELSE LET rests == quotientRests(r, den, k - 1)
         IN  Append(rests, (2 * rests[k]) % den)

\* bits + 1 in the last place, as long as not all bits are 1.
incrementBits(bits) ==
    LET last0 == CHOOSE i \in 1..Len(bits) :
                     bits[i] = 0 /\ \A j \in (i + 1)..Len(bits) : bits[j] = 1
    IN  [i \in 1..Len(bits) |->
            IF i < last0 THEN bits[i] ELSE IF i = last0 THEN 1 ELSE 0]

\* The double one unit in the last place above [exp, bits].
nextDouble(exp, bits) ==
    IF \A i \in 1..Len(bits) : bits[i] = 1
    THEN [exp |-> exp + 1, bits |-> [i \in 1..Len(bits) |-> IF i = 1 THEN 1 ELSE 0]]
    ELSE [exp |-> exp, bits |-> incrementBits(bits)]

\* num / den for integers num >= 0 and den > 0: the nearest double, a tie
\* to the even one.
divideDouble(num, den) ==
    IF num = 0 THEN DoubleZero
    ELSE LET z == normalizeQuotient(num, den)
             rests == quotientRests(z.num - z.den, z.den, MantissaBits - 1)
             bits == [i \in 1..MantissaBits |->
                         IF i = 1 THEN 1 ELSE (2 * rests[i - 1]) \div z.den]
             rest == rests[MantissaBits]
         IN  IF 2 * rest > z.den \/ (2 * rest = z.den /\ bits[MantissaBits] = 1)
             THEN nextDouble(z.exp, bits)
             ELSE [exp |-> z.exp, bits |-> bits]

\* The double of a positive integer below 2^53, or of 0.
doubleOfInt(n) == divideDouble(n, 1)

\* The binary digits of n, the highest first.
RECURSIVE binaryDigits(_)
binaryDigits(n) ==
    IF n = 0 THEN <<>> ELSE Append(binaryDigits(n \div 2), n % 2)

\* The carries of bits * k + c, worked from the last digit on: the j-th is
\* the carry into the j-th digit from the right (the first is c itself).
RECURSIVE timesPlusCarries(_, _, _, _)
timesPlusCarries(bits, k, c, j) ==
    IF j = 0 THEN <<c>>
    ELSE LET carries == timesPlusCarries(bits, k, c, j - 1)
         IN  Append(carries, (bits[Len(bits) - j + 1] * k + carries[j]) \div 2)

\* The digits of bits * k + c, for the number whose digits are bits.
timesPlus(bits, k, c) ==
    LET carries == timesPlusCarries(bits, k, c, Len(bits))
    IN  binaryDigits(carries[Len(bits) + 1])
            \o [i \in 1..Len(bits) |->
                   (bits[i] * k + carries[Len(bits) - i + 1]) % 2]

\* The digits of k times the number whose digits are bits.
timesBits(bits, k) == timesPlus(bits, k, 0)

\* d * k for a double d and an integer k >= 0: the exact product, rounded
\* to the nearest double, a tie to the even one.
multiplyDouble(d, k) ==
    IF d.bits = <<>> \/ k = 0 THEN DoubleZero
    ELSE LET prod == timesBits(d.bits, k)
             exp == d.exp + Len(prod) - MantissaBits
             kept == SubSeq(prod, 1, MantissaBits)
             dropped == SubSeq(prod, MantissaBits + 1, Len(prod))
             up == /\ dropped # <<>>
                   /\ dropped[1] = 1
                   /\ \/ \E i \in 2..Len(dropped) : dropped[i] = 1
                      \/ kept[MantissaBits] = 1
         IN  IF up THEN nextDouble(exp, kept) ELSE [exp |-> exp, bits |-> kept]

---------------------------------------------------------------------------
(* Result values (neverthrow's ok and err)                                 *)

ok(v) == [type |-> "ok", value |-> v]
err(e) == [type |-> "err", error |-> e]
isOk(r) == r.type = "ok"
isErr(r) == r.type = "err"
None == [type |-> "none"]

---------------------------------------------------------------------------
(* types.ts                                                                *)

isValidNode(node) == typeof(node) = "string" \/ typeof(node) = "number"

---------------------------------------------------------------------------
(* graph-validator.ts                                                      *)

InvalidGraph(reason) == [type |-> "InvalidGraph", reason |-> reason]

\* A faulty validateEdge: the weight checks before the node check.
validateEdge_weightFirst(edge) ==
    IF typeof(edge.weight) # "number" \/ isNaN(edge.weight)
       \/ ~isFinite(edge.weight)
    THEN err(InvalidGraph("Invalid weight: NaN or Infinity"))
    ELSE IF NumLess(edge.weight, Num(0))
    THEN err(InvalidGraph("Invalid weight: negative value"))
    ELSE IF ~isValidNode(edge.from) \/ ~isValidNode(edge.to)
    THEN err(InvalidGraph("Invalid node type"))
    ELSE None

\* A faulty validateEdge: no check of the sign of the weight.
validateEdge_noSignCheck(edge) ==
    IF ~isValidNode(edge.from) \/ ~isValidNode(edge.to)
    THEN err(InvalidGraph("Invalid node type"))
    ELSE IF typeof(edge.weight) # "number" \/ isNaN(edge.weight)
            \/ ~isFinite(edge.weight)
    THEN err(InvalidGraph("Invalid weight: NaN or Infinity"))
    ELSE None

\* The checks of one edge, in the order of the loop body: the error of the
\* edge, or None when it passes.
validateEdge(edge) ==
    IF ~isValidNode(edge.from) \/ ~isValidNode(edge.to)
    THEN err(InvalidGraph("Invalid node type"))
    ELSE IF typeof(edge.weight) # "number" \/ isNaN(edge.weight)
            \/ ~isFinite(edge.weight)
    THEN err(InvalidGraph("Invalid weight: NaN or Infinity"))
    ELSE IF NumLess(edge.weight, Num(0))
    THEN err(InvalidGraph("Invalid weight: negative value"))
    ELSE None

RECURSIVE validateFrom(_, _)
validateFrom(es, i) ==
    IF i > Len(es) THEN ok(Undefined)
    ELSE IF validateEdge(es[i]) # None THEN validateEdge(es[i])
    ELSE validateFrom(es, i + 1)

validateEdges(es) == validateFrom(es, 1)

---------------------------------------------------------------------------
(* graph-builder.ts                                                        *)

\* Map.has, Map.get and Map.set of a new key, on a sequence of entries.
MapHas(m, key) == \E i \in 1..Len(m) : m[i].key = key

MapIndex(m, key) == CHOOSE i \in 1..Len(m) : m[i].key = key

MapKeys(m) == {m[i].key : i \in 1..Len(m)}

MapSetNew(m, key) == Append(m, [key |-> key, edges |-> <<>>])

\* graph.get(edge.from)!.push(edge)
MapPush(m, key, edge) ==
    [m EXCEPT ![MapIndex(m, key)].edges = Append(@, edge)]

\* A faulty addEdge: the destination gets no key.
addEdge_sourceOnly(m, edge) ==
    LET m1 == IF ~MapHas(m, edge.from) THEN MapSetNew(m, edge.from) ELSE m
    IN  MapPush(m1, edge.from, edge)

\* A faulty addEdge: graph.set(edge.to, []) without the test of
\* graph.has(edge.to), which empties the list of a destination that has one.
addEdge_resetsDestination(m, edge) ==
    LET m1 == IF ~MapHas(m, edge.from) THEN MapSetNew(m, edge.from) ELSE m
        m2 == MapPush(m1, edge.from, edge)
    IN  IF ~MapHas(m2, edge.to) THEN MapSetNew(m2, edge.to)
        ELSE [m2 EXCEPT ![MapIndex(m2, edge.to)].edges = <<>>]

\* One round of the loop of buildAdjacencyList.
addEdge(m, edge) ==
    LET m1 == IF ~MapHas(m, edge.from) THEN MapSetNew(m, edge.from) ELSE m
        m2 == MapPush(m1, edge.from, edge)
    IN  IF ~MapHas(m2, edge.to) THEN MapSetNew(m2, edge.to) ELSE m2

RECURSIVE buildFrom(_, _, _)
buildFrom(m, es, i) ==
    IF i > Len(es) THEN m ELSE buildFrom(addEdge(m, es[i]), es, i + 1)

buildAdjacencyList(es) == buildFrom(<<>>, es, 1)

EmptyGraph == [type |-> "EmptyGraph"]

\* A faulty buildGraph: no early return for the empty list.
buildGraph_noEmptyCheck(es) ==
    IF isErr(validateEdges(es)) THEN err(validateEdges(es).error)
    ELSE ok(buildAdjacencyList(es))

buildGraph(es) ==
    IF Len(es) = 0 THEN err(EmptyGraph)
    ELSE IF isErr(validateEdges(es)) THEN err(validateEdges(es).error)
    ELSE ok(buildAdjacencyList(es))

---------------------------------------------------------------------------
(* priority-queue.ts                                                       *)

createPriorityQueue == [items |-> <<>>]

\* The place of a new item in a list sorted by a stable sort: behind every
\* item whose priority is not greater (a.priority - b.priority > 0 moves a
\* behind b).
\* A faulty place: before the items of the same priority.
RECURSIVE insertSorted_beforeEqual(_, _)
insertSorted_beforeEqual(sorted, x) ==
    IF sorted = <<>> THEN <<x>>
    ELSE IF ~NumLess(sorted[Len(sorted)].priority, x.priority)
    THEN Append(insertSorted_beforeEqual(SubSeq(sorted, 1, Len(sorted) - 1), x),
                sorted[Len(sorted)])
    ELSE Append(sorted, x)

RECURSIVE insertSorted(_, _)
insertSorted(sorted, x) ==
    IF sorted = <<>> THEN <<x>>
    ELSE IF NumLess(x.priority, sorted[Len(sorted)].priority)
    THEN Append(insertSorted(SubSeq(sorted, 1, Len(sorted) - 1), x),
                sorted[Len(sorted)])
    ELSE Append(sorted, x)

\* Array.prototype.sort with the comparator a.priority - b.priority: a
\* stable sort, as an insertion sort from the left.
RECURSIVE sortByPriority(_)
sortByPriority(items) ==
    IF items = <<>> THEN <<>>
    ELSE insertSorted(sortByPriority(SubSeq(items, 1, Len(items) - 1)),
                      items[Len(items)])

enqueuePriorityQueue(queue, item, priority) ==
    LET newItems == Append(queue.items, [item |-> item, priority |-> priority])
    IN  [items |-> sortByPriority(newItems)]

\* A faulty dequeuePriorityQueue: the last item is taken.
dequeuePriorityQueue_takesLast(queue) ==
    IF Len(queue.items) = 0
    THEN [item |-> Undefined, newQueue |-> queue]
    ELSE [item |-> queue.items[Len(queue.items)].item,
          newQueue |-> [items |-> SubSeq(queue.items, 1, Len(queue.items) - 1)]]

dequeuePriorityQueue(queue) ==
    IF Len(queue.items) = 0
    THEN [item |-> Undefined, newQueue |-> queue]
    ELSE [item |-> queue.items[1].item,
          newQueue |-> [items |-> Tail(queue.items)]]

isPriorityQueueEmpty(queue) == Len(queue.items) = 0

\* The same functions with the arrays as objects: h[ref] is the array at
\* the address ref, and a queue { items } holds the address of its array.

\* { items: [] }: a new array.
createOnHeap(h) ==
    [heap |-> Append(h, createPriorityQueue.items), items |-> Len(h) + 1]

\* A faulty enqueuePriorityQueue: queue.items.push(...) and a sort of the
\* array of the queue itself.
enqueueOnHeap_inPlace(h, ref, item, priority) ==
    [heap |-> [h EXCEPT ![ref] =
                  enqueuePriorityQueue([items |-> h[ref]], item, priority).items],
     items |-> ref]

\* [...queue.items, { item, priority }] is a new array, and it is the new
\* array that is sorted; the array of the queue is only read.
enqueueOnHeap(h, ref, item, priority) ==
    [heap |-> Append(h, enqueuePriorityQueue([items |-> h[ref]], item,
                                             priority).items),
     items |-> Len(h) + 1]

\* On an empty queue newQueue is the queue itself; otherwise ...rest is a
\* new array.
dequeueOnHeap(h, ref) ==
    LET taken == dequeuePriorityQueue([items |-> h[ref]])
    IN  IF Len(h[ref]) = 0
        THEN [heap |-> h, item |-> taken.item, items |-> ref]
        ELSE [heap |-> Append(h, taken.newQueue.items), item |-> taken.item,
              items |-> Len(h) + 1]

---------------------------------------------------------------------------
(* path-finder.ts                                                          *)

\* The destinations of the edges stored in the graph.
MapDestinations(m) ==
    UNION {{m[i].edges[j].to : j \in 1..Len(m[i].edges)} : i \in 1..Len(m)}

\* Map.get(key) ?? dflt on a Map held as a function.
GetOr(map, key, dflt) == IF key \in DOMAIN map THEN map[key] ELSE dflt

\* graph.get(current) ?? []
neighborsOf(g, current) ==
    IF MapHas(g, current) THEN g[MapIndex(g, current)].edges ELSE <<>>

\* A faulty initDijkstra: without the loop over the edges' destinations.
initDijkstra_keysOnly(g, start) ==
    [distances |->
        [node \in MapKeys(g) |-> IF StrictEq(node, start) THEN Num(0) ELSE PosInf],
     previous |-> [node \in MapKeys(g) |-> Null],
     visited |-> {},
     queue |-> enqueuePriorityQueue(createPriorityQueue, start, Num(0))]

\* The state of the search before its loop: every key at Infinity but the
\* start at 0, every destination that is no key at Infinity, no
\* predecessors, nothing visited, the start in the queue.
initDijkstra(g, start) ==
    [distances |->
        [node \in MapKeys(g) \cup MapDestinations(g) |->
            IF node \in MapKeys(g) /\ StrictEq(node, start)
            THEN Num(0) ELSE PosInf],
     previous |-> [node \in MapKeys(g) \cup MapDestinations(g) |-> Null],
     visited |-> {},
     queue |-> enqueuePriorityQueue(createPriorityQueue, start, Num(0))]

\* A faulty relaxEdge: newDistance = edge.weight, without currentDistance.
relaxEdge_weightOnly(st, current, currentDistance, edge) ==
    IF edge.to \in st.visited THEN st
    ELSE LET newDistance == edge.weight
             existingDistance == GetOr(st.distances, edge.to, PosInf)
         IN  IF NumLess(newDistance, existingDistance)
             THEN [st EXCEPT
                     !.distances = (edge.to :> newDistance) @@ @,
                     !.previous = (edge.to :> current) @@ @,
                     !.queue = enqueuePriorityQueue(@, edge.to, newDistance)]
             ELSE st

\* A faulty relaxEdge: newDistance <= existingDistance in place of <.
relaxEdge_orEqual(st, current, currentDistance, edge) ==
    IF edge.to \in st.visited THEN st
    ELSE LET newDistance == NumPlus(currentDistance, edge.weight)
             existingDistance == GetOr(st.distances, edge.to, PosInf)
         IN  IF ~NumLess(existingDistance, newDistance)
             THEN [st EXCEPT
                     !.distances = (edge.to :> newDistance) @@ @,
                     !.previous = (edge.to :> current) @@ @,
                     !.queue = enqueuePriorityQueue(@, edge.to, newDistance)]
             ELSE st

\* One round of the loop over the edges of the current node.
relaxEdge(st, current, currentDistance, edge) ==
    IF edge.to \in st.visited THEN st
    ELSE LET newDistance == NumPlus(currentDistance, edge.weight)
             existingDistance == GetOr(st.distances, edge.to, PosInf)
         IN  IF NumLess(newDistance, existingDistance)
             THEN [st EXCEPT
                     !.distances = (edge.to :> newDistance) @@ @,
                     !.previous = (edge.to :> current) @@ @,
                     !.queue = enqueuePriorityQueue(@, edge.to, newDistance)]
             ELSE st

RECURSIVE relaxFrom(_, _, _, _, _)
relaxFrom(st, current, currentDistance, neighbors, i) ==
    IF i > Len(neighbors) THEN st
    ELSE relaxFrom(relaxEdge(st, current, currentDistance, neighbors[i]),
                   current, currentDistance, neighbors, i + 1)

\* A faulty dijkstraStep: an item that is skipped stays in the queue.
dijkstraStep_keepsSkipped(g, st) ==
    LET d == dequeuePriorityQueue(st.queue)
        current == d.item
        st1 == [st EXCEPT !.queue = d.newQueue]
    IN  IF Falsy(current) \/ current \in st.visited THEN st
        ELSE LET st2 == [st1 EXCEPT !.visited = @ \cup {current}]
                 currentDistance == GetOr(st.distances, current, PosInf)
             IN  relaxFrom(st2, current, currentDistance,
                           neighborsOf(g, current), 1)

\* One round of the while loop: take the first item of the queue, skip it
\* when it is falsy or visited, else visit it and relax its edges.
dijkstraStep(g, st) ==
    LET d == dequeuePriorityQueue(st.queue)
        current == d.item
        st1 == [st EXCEPT !.queue = d.newQueue]
    IN  IF Falsy(current) \/ current \in st.visited THEN st1
        ELSE LET st2 == [st1 EXCEPT !.visited = @ \cup {current}]
                 currentDistance == GetOr(st.distances, current, PosInf)
             IN  relaxFrom(st2, current, currentDistance,
                           neighborsOf(g, current), 1)

RECURSIVE dijkstraLoop(_, _)
dijkstraLoop(g, st) ==
    IF isPriorityQueueEmpty(st.queue) THEN st
    ELSE dijkstraLoop(g, dijkstraStep(g, st))

executeDijkstraInternal(g, start) == dijkstraLoop(g, initDijkstra(g, start))

NodeNotFound(node) == [type |-> "NodeNotFound", node |-> node]
NoPath(from, to) == [type |-> "NoPath", from |-> from, to |-> to]

\* A faulty walkBack: the loop ends at the node without predecessor and
\* leaves it out.
RECURSIVE walkBack_dropsSource(_, _, _)
walkBack_dropsSource(previous, current, path) ==
    IF GetOr(previous, current, Null) = Null THEN path
    ELSE walkBack_dropsSource(previous, GetOr(previous, current, Null),
                              <<current>> \o path)

\* The loop of reconstructPathInternal: path.unshift(current), then the
\* predecessor of current, until it is null.
RECURSIVE walkBack(_, _, _)
walkBack(previous, current, path) ==
    IF current = Null THEN path
    ELSE walkBack(previous, GetOr(previous, current, Null), <<current>> \o path)

reconstructPathInternal(previous, distances, target) ==
    IF target \notin DOMAIN distances THEN err(NodeNotFound(target))
    ELSE IF distances[target] = PosInf THEN err(NodeNotFound(target))
    ELSE ok([path |-> walkBack(previous, target, <<>>),
             distance |-> distances[target]])

\* findPaths from the call of executeDijkstraInternal on: the search, the
\* reconstruction, and the error of an unknown or unreachable target.
searchAndReconstruct(g, start, target) ==
    LET r == executeDijkstraInternal(g, start)
        pathResultInternal ==
            reconstructPathInternal(r.previous, r.distances, target)
    IN  IF isErr(pathResultInternal)
        THEN IF pathResultInternal.error.type = "NodeNotFound"
             THEN IF target \notin DOMAIN r.distances
                  THEN err(NodeNotFound(target))
                  ELSE err(NoPath(start, target))
             ELSE err(pathResultInternal.error)
        ELSE ok(pathResultInternal.value)

\* A faulty findPaths: without the early return for a start that is no key.
findPaths_noStartCheck(g, start, target) ==
    IF Len(g) = 0 THEN err(NodeNotFound(start))
    ELSE searchAndReconstruct(g, start, target)

findPaths(g, start, target) ==
    IF Len(g) = 0 THEN err(NodeNotFound(start))
    ELSE IF ~MapHas(g, start) THEN err(NodeNotFound(start))
    ELSE searchAndReconstruct(g, start, target)

---------------------------------------------------------------------------
(* graph-analyzer.ts                                                       *)

\* Set.add on a Set held as the sequence of its members, in insertion order.
SetAdd(set, x) ==
    IF \E i \in 1..Len(set) : set[i] = x THEN set ELSE Append(set, x)

RECURSIVE SetAddAll(_, _, _)
SetAddAll(set, items, i) ==
    IF i > Len(items) THEN set
    ELSE SetAddAll(SetAdd(set, items[i]), items, i + 1)

\* graph.keys()
keysOf(g) == [i \in 1..Len(g) |-> g[i].key]

\* for (const edges of graph.values()) for (const edge of edges): the
\* edges of all lists, each with the key of its list, in iteration order.
RECURSIVE entriesFrom(_, _)
entriesFrom(g, i) ==
    IF i > Len(g) THEN <<>>
    ELSE [j \in 1..Len(g[i].edges) |-> [node |-> g[i].key, edge |-> g[i].edges[j]]]
         \o entriesFrom(g, i + 1)

allEdges(g) == entriesFrom(g, 1)

\* A faulty extractAllNodes: without the loop over the edge destinations.
extractAllNodes_keysOnly(g) == SetAddAll(<<>>, keysOf(g), 1)

extractAllNodes(g) ==
    SetAddAll(SetAddAll(<<>>, keysOf(g), 1),
              [j \in 1..Len(allEdges(g)) |-> allEdges(g)[j].edge.to], 1)

RECURSIVE edgeCountFrom(_, _)
edgeCountFrom(g, i) ==
    IF i > Len(g) THEN 0 ELSE Len(g[i].edges) + edgeCountFrom(g, i + 1)

calculateEdgeCount(g) == edgeCountFrom(g, 1)

\* A faulty calculateDensity: the edges counted as undirected ones.
calculateDensity_undirected(nodeCount, edgeCount) ==
    IF nodeCount <= 1 THEN DoubleZero
    ELSE divideDouble(edgeCount, (nodeCount * (nodeCount - 1)) \div 2)

\* A faulty calculateDensity: the quotient capped at 1.
calculateDensity_capped(nodeCount, edgeCount) ==
    IF nodeCount <= 1 THEN DoubleZero
    ELSE IF edgeCount > nodeCount * (nodeCount - 1) THEN doubleOfInt(1)
    ELSE divideDouble(edgeCount, nodeCount * (nodeCount - 1))

calculateDensity(nodeCount, edgeCount) ==
    IF nodeCount <= 1 THEN DoubleZero
    ELSE divideDouble(edgeCount, nodeCount * (nodeCount - 1))

\* The stack after the pushes of the destinations of current's edges.
addDirectAdjacentNodes(g, current, visited, stack) ==
    LET es == neighborsOf(g, current)
        tos == [j \in 1..Len(es) |-> es[j].to]
    IN  stack \o SelectSeq(tos, LAMBDA to : to \notin visited)

\* The stack after the pushes of the keys of the edges that lead to current.
addReverseAdjacentNodes(g, current, visited, stack) ==
    LET hits == SelectSeq(allEdges(g),
                    LAMBDA e : StrictEq(e.edge.to, current) /\ e.node \notin visited)
    IN  stack \o [j \in 1..Len(hits) |-> hits[j].node]

addAdjacentNodes(g, current, visited, stack) ==
    addReverseAdjacentNodes(g, current, visited,
        addDirectAdjacentNodes(g, current, visited, stack))

\* The while loop of exploreComponent: the component and the visited set
\* at its end.
RECURSIVE exploreLoop(_, _, _, _)
exploreLoop(g, stack, visited, component) ==
    IF stack = <<>> THEN [component |-> component, visited |-> visited]
    ELSE LET current == stack[Len(stack)]
             rest == SubSeq(stack, 1, Len(stack) - 1)
         IN  IF current \in visited
             THEN exploreLoop(g, rest, visited, component)
             ELSE exploreLoop(g,
                      addAdjacentNodes(g, current, visited \cup {current}, rest),
                      visited \cup {current},
                      Append(component, current))

exploreComponent(g, startNode, visited) ==
    exploreLoop(g, <<startNode>>, visited, <<>>)

\* A faulty loop of findConnectedComponents: a start node that is visited
\* already is explored all the same.
RECURSIVE componentsFrom_noSkip(_, _, _, _, _)
componentsFrom_noSkip(g, allNodes, i, visited, components) ==
    IF i > Len(allNodes) THEN components
    ELSE LET explored == exploreComponent(g, allNodes[i], visited)
         IN  componentsFrom_noSkip(g, allNodes, i + 1, explored.visited,
                                   Append(components, explored.component))

\* The for loop of findConnectedComponents, from the i-th node on.
RECURSIVE componentsFrom(_, _, _, _, _)
componentsFrom(g, allNodes, i, visited, components) ==
    IF i > Len(allNodes) THEN components
    ELSE IF allNodes[i] \in visited
    THEN componentsFrom(g, allNodes, i + 1, visited, components)
    ELSE LET explored == exploreComponent(g, allNodes[i], visited)
         IN  componentsFrom(g, allNodes, i + 1, explored.visited,
                            Append(components, explored.component))

findConnectedComponents(g, allNodes) == componentsFrom(g, allNodes, 1, {}, <<>>)

GraphAnalysis(nodeCount, edgeCount, isConnected, components, density) ==
    [nodeCount |-> nodeCount, edgeCount |-> edgeCount,
     isConnected |-> isConnected, components |-> components,
     density |-> density]

\* A faulty analyzeGraph: connected when there is a component at all.
analyzeGraph_connectedIfAny(g) ==
    IF Len(g) = 0 THEN err(EmptyGraph)
    ELSE LET allNodes == extractAllNodes(g)
             components == findConnectedComponents(g, allNodes)
         IN  ok(GraphAnalysis(Len(allNodes), calculateEdgeCount(g),
                              Len(components) >= 1, components,
                              calculateDensity(Len(allNodes), calculateEdgeCount(g))))

\* A faulty analyzeGraph: without the check of the size of the graph.
analyzeGraph_noSizeCheck(g) ==
    LET allNodes == extractAllNodes(g)
        components == findConnectedComponents(g, allNodes)
    IN  ok(GraphAnalysis(Len(allNodes), calculateEdgeCount(g),
                         Len(components) <= 1, components,
                         calculateDensity(Len(allNodes), calculateEdgeCount(g))))

analyzeGraph(g) ==
    IF Len(g) = 0 THEN err(EmptyGraph)
    ELSE LET allNodes == extractAllNodes(g)
             nodeCount == Len(allNodes)
             edgeCount == calculateEdgeCount(g)
             components == findConnectedComponents(g, allNodes)
             isConnected == Len(components) <= 1
             density == calculateDensity(nodeCount, edgeCount)
         IN  ok(GraphAnalysis(nodeCount, edgeCount, isConnected, components, density))

---------------------------------------------------------------------------
(* The callers: the inputs and the calls                                   *)

MaxEdges == 2
MaxRawEdges == 2

\* Well-formed edges: every list of at most MaxEdges of them is an input.
PathNodes == {Str("A"), Str("B"), Num(0)}
PathWeights == {Num(0), Num(1), Num(2)}
PathEdges == [from : PathNodes, to : PathNodes, weight : PathWeights]

\* Raw edges, as an untyped caller may pass them.
RawNodes == {Str("A"), NaN, Null}
RawWeights == {Num(1), Num(-1), NaN, PosInf}
RawEdges == [from : RawNodes, to : RawNodes, weight : RawWeights]

Edge(from, to, weight) == [from |-> from, to |-> to, weight |-> Num(weight)]

\* The edge lists of the tests.
basicEdges ==
    <<Edge(Str("A"), Str("B"), 4), Edge(Str("A"), Str("C"), 2),
      Edge(Str("B"), Str("C"), 1), Edge(Str("B"), Str("D"), 5),
      Edge(Str("C"), Str("D"), 8), Edge(Str("C"), Str("E"), 10),
      Edge(Str("D"), Str("E"), 2)>>

disconnectedGraphEdges ==
    <<Edge(Str("A"), Str("B"), 1), Edge(Str("C"), Str("D"), 2)>>

numericEdges == <<Edge(Num(1), Num(2), 5), Edge(Num(2), Num(3), 3)>>

TestEdgeLists == {basicEdges, disconnectedGraphEdges, numericEdges}

SeqsUpTo(S, n) == UNION {[1..k -> S] : k \in 0..n}

EdgeLists ==
    SeqsUpTo(PathEdges, MaxEdges) \cup SeqsUpTo(RawEdges, MaxRawEdges)
    \cup TestEdgeLists

\* The endpoints of a list of edges.
Endpoints(es) ==
    {es[i].from : i \in 1..Len(es)} \cup {es[i].to : i \in 1..Len(es)}

\* The nodes a caller asks about: those of its edges, and those of
\* PathNodes, which are in the graph or not.
QueryNodes(es) == {n \in PathNodes \cup Endpoints(es) : isValidNode(n)}

\* A Graph written by hand, not by buildGraph (as the tests' new Map()): the
\* edges under their sources, and no key for a node that is a destination
\* only.
RECURSIVE literalFrom(_, _, _)
literalFrom(m, es, i) ==
    IF i > Len(es) THEN m
    ELSE LET m1 == IF ~MapHas(m, es[i].from)
                   THEN MapSetNew(m, es[i].from) ELSE m
         IN  literalFrom(MapPush(m1, es[i].from, es[i]), es, i + 1)

mapLiteral(es) == literalFrom(<<>>, es, 1)

Init ==
    /\ edges \in EdgeLists
    /\ graphResult = None
    /\ graph = <<>>
    /\ pc = "start"
    /\ pathResult = None
    /\ analysis = None
    /\ calls = <<>>
    /\ queries = <<>>
    /\ heap = <<>>
    /\ frontiers = <<>>

\* const graphResult = buildGraph(edges); the graph is its value.
BuildGraph ==
    /\ pc = "start"
    /\ graphResult' = buildGraph(edges)
    /\ graph' = IF isOk(buildGraph(edges)) THEN buildGraph(edges).value ELSE graph
    /\ pc' = IF isOk(buildGraph(edges)) THEN "graph" ELSE "failed"
    /\ UNCHANGED <<edges, pathResult, analysis, calls,
                 queries, heap, frontiers>>

\* const graph = new Map(...): a Graph of well-formed edges written by hand.
NewMap ==
    /\ pc = "start"
    /\ isOk(validateEdges(edges))
    /\ graph' = mapLiteral(edges)
    /\ pc' = "graph"
    /\ UNCHANGED <<edges, graphResult, pathResult, analysis, calls,
                 queries, heap, frontiers>>

\* const result = findPaths(graph, start, target)
FindPaths(start, target) ==
    /\ pc = "graph"
    /\ pathResult' = [start |-> start, target |-> target,
                      result |-> findPaths(graph, start, target)]
    /\ pc' = "done"
    /\ UNCHANGED <<edges, graphResult, graph, analysis, calls,
                 queries, heap, frontiers>>

Next ==
    \/ BuildGraph
    \/ NewMap
    \/ \E start \in QueryNodes(edges), target \in QueryNodes(edges) :
          FindPaths(start, target)

Spec == Init /\ [][Next]_vars

---------------------------------------------------------------------------
(* The callers of analyzeGraph                                             *)

MaxAnalyzeEdges == 3

AnalyzeNodes == {Str("A"), Num(0), NaN}

AnalyzeEdges == [from : AnalyzeNodes, to : AnalyzeNodes, weight : {Num(1)}]

\* The edge lists of the tests of analyzeGraph (basicEdges is above).
disconnectedEdges ==
    <<Edge(Str("A"), Str("B"), 1), Edge(Str("C"), Str("D"), 1)>>

completeEdges ==
    <<Edge(Str("A"), Str("B"), 1), Edge(Str("A"), Str("C"), 1),
      Edge(Str("B"), Str("A"), 1), Edge(Str("B"), Str("C"), 1),
      Edge(Str("C"), Str("A"), 1), Edge(Str("C"), Str("B"), 1)>>

\* disconnectedEdges with a third pair: six nodes and three edges.
threePairsEdges ==
    <<Edge(Str("A"), Str("B"), 1), Edge(Str("C"), Str("D"), 1),
      Edge(Str("E"), Str("F"), 1)>>

AnalyzeEdgeLists ==
    SeqsUpTo(AnalyzeEdges, MaxAnalyzeEdges)
    \cup {basicEdges, disconnectedEdges, completeEdges, threePairsEdges}

InitAnalyze ==
    /\ edges \in AnalyzeEdgeLists
    /\ graphResult = None
    /\ graph = <<>>
    /\ pc = "start"
    /\ pathResult = None
    /\ analysis = None
    /\ calls = <<>>
    /\ queries = <<>>
    /\ heap = <<>>
    /\ frontiers = <<>>

\* const analysisResult = analyzeGraph(graph)
Analyze ==
    /\ pc = "graph"
    /\ analysis' = analyzeGraph(graph)
    /\ pc' = "analyzed"
    /\ UNCHANGED <<edges, graphResult, graph, pathResult, calls,
                 queries, heap, frontiers>>

NextAnalyze ==
    \/ BuildGraph
    \/ NewMap
    \/ Analyze

SpecAnalyze == InitAnalyze /\ [][NextAnalyze]_vars

---------------------------------------------------------------------------
(* A caller that queries one graph several times                           *)

MaxCallEdges == 1

MaxCalls == 3

CallEdges == [from : {Str("A"), Num(0)}, to : {Str("A"), Num(0)}, weight : {Num(1)}]

CallEdgeLists == SeqsUpTo(CallEdges, MaxCallEdges) \cup {basicEdges}

\* The nodes of the queries: B is no node of the generated lists.
CallNodes == {Str("A"), Num(0), Str("B")}

\* A faulty findPaths: the target is made a key of the Map.
graphAfterFindPaths_setsTarget(g, start, target) ==
    IF MapHas(g, target) THEN g ELSE MapSetNew(g, target)

\* The Map after findPaths(g, start, target): the call reads the Map (size,
\* has, keys, values, get) and writes nothing to it; its distances,
\* previous, visited and queue are locals of the call.
graphAfterFindPaths(g, start, target) == g

\* A faulty analyzeGraph: every destination is made a key of the Map.
RECURSIVE graphAfterAnalyzeGraph_setsDestinations(_)
graphAfterAnalyzeGraph_setsDestinations(g) ==
    IF MapDestinations(g) \subseteq MapKeys(g) THEN g
    ELSE graphAfterAnalyzeGraph_setsDestinations(
             MapSetNew(g, CHOOSE n \in MapDestinations(g) : ~MapHas(g, n)))

\* The Map after analyzeGraph(g): the call reads the Map (size, keys,
\* values, entries, get) and writes nothing to it.
graphAfterAnalyzeGraph(g) == g

InitCalls ==
    /\ edges \in CallEdgeLists
    /\ graphResult = None
    /\ graph = <<>>
    /\ pc = "start"
    /\ pathResult = None
    /\ analysis = None
    /\ calls = <<>>
    /\ queries = <<>>
    /\ heap = <<>>
    /\ frontiers = <<>>

\* One more findPaths(graph, start, target) on the graph.
CallFindPaths(start, target) ==
    /\ pc = "graph"
    /\ Len(calls) < MaxCalls
    /\ calls' = Append(calls, [op |-> "findPaths", start |-> start, target |-> target,
                               result |-> findPaths(graph, start, target)])
    /\ graph' = graphAfterFindPaths(graph, start, target)
    /\ UNCHANGED <<edges, graphResult, pc, pathResult, analysis,
                 queries, heap, frontiers>>

\* One more analyzeGraph(graph) on the graph.
CallAnalyzeGraph ==
    /\ pc = "graph"
    /\ Len(calls) < MaxCalls
    /\ calls' = Append(calls, [op |-> "analyzeGraph", start |-> None, target |-> None,
                               result |-> analyzeGraph(graph)])
    /\ graph' = graphAfterAnalyzeGraph(graph)
    /\ UNCHANGED <<edges, graphResult, pc, pathResult, analysis,
                 queries, heap, frontiers>>

NextCalls ==
    \/ BuildGraph
    \/ NewMap
    \/ \E start \in CallNodes, target \in CallNodes : CallFindPaths(start, target)
    \/ CallAnalyzeGraph

SpecCalls == InitCalls /\ [][NextCalls]_vars

---------------------------------------------------------------------------
(* What the claims speak of, stated on the graph itself                    *)

\* The nodes of a graph: its keys and the destinations of its edges.
KnownNodes(g) == MapKeys(g) \cup MapDestinations(g)

\* The weights of the edges from u to v.
EdgeWeights(g, u, v) ==
    IF ~MapHas(g, u) THEN {}
    ELSE LET es == g[MapIndex(g, u)].edges
         IN  {es[j].weight.n : j \in {j \in 1..Len(es) : es[j].to = v}}

MinOf(S) == CHOOSE x \in S : \A y \in S : x <= y

IsSimple(p) == \A i, j \in 1..Len(p) : i # j => p[i] # p[j]

IsDirectedPath(g, p) ==
    \A i \in 1..(Len(p) - 1) : EdgeWeights(g, p[i], p[i + 1]) # {}

\* Every simple directed path from s to t, by enumeration.
SimplePaths(g, s, t) ==
    {p \in UNION {[1..k -> KnownNodes(g)] : k \in 1..Cardinality(KnownNodes(g))} :
        /\ p[1] = s
        /\ p[Len(p)] = t
        /\ IsSimple(p)
        /\ IsDirectedPath(g, p)}

\* The weight of a path: at each step the lightest of the parallel edges.
RECURSIVE PathWeight(_, _)
PathWeight(g, p) ==
    IF Len(p) <= 1 THEN 0
    ELSE MinOf(EdgeWeights(g, p[1], p[2])) + PathWeight(g, Tail(p))

ShortestDistance(g, s, t) == MinOf({PathWeight(g, p) : p \in SimplePaths(g, s, t)})

\* A text label or a finite number (the spec's Node).
WellFormedNode(n) == n.t = "string" \/ (n.t = "number" /\ n.k = "fin")

Queried == pc = "done"
Built == isOk(graphResult)

---------------------------------------------------------------------------
(* findPaths step by step: the rounds of its loops, of one query or of     *)
(* several queries on one graph                                            *)

MaxSearchEdges == 2

SearchEdges ==
    [from : {Str("A"), Str("B"), Num(0)}, to : {Str("A"), Str("B"), Num(0)},
     weight : {Num(0), Num(1)}]

\* Two ways of one weight from A to D, the one by B stored first.
diamondEdges ==
    <<Edge(Str("A"), Str("B"), 1), Edge(Str("A"), Str("C"), 1),
      Edge(Str("B"), Str("D"), 1), Edge(Str("C"), Str("D"), 1)>>

\* numericEdges with the nodes 0, 1, 2 in place of 1, 2, 3.
zeroEdges == <<Edge(Num(0), Num(1), 5), Edge(Num(1), Num(2), 3)>>

\* Two ways from A to B, the lighter one through the node 0.
shortcutEdges ==
    <<Edge(Str("A"), Num(0), 0), Edge(Num(0), Str("B"), 0),
      Edge(Str("A"), Str("B"), 1)>>

SearchEdgeLists ==
    SeqsUpTo(SearchEdges, MaxSearchEdges)
    \cup {basicEdges, diamondEdges, zeroEdges, shortcutEdges}

\* A call of findPaths that has not begun.
idleQuery ==
    [phase |-> "idle", start |-> None, target |-> None, st |-> None,
     order |-> <<>>, insertions |-> 0, current |-> Null, path |-> <<>>,
     result |-> None]

\* A faulty queryLocals: the visited set is one Set shared by all calls.
queryLocals_sharedVisited(qs, q) ==
    [qs[q].st EXCEPT !.visited =
        UNION {qs[p].st.visited : p \in {r \in DOMAIN qs : qs[r].phase = "search"}}]

\* The distances, previous, visited and queue that call q works on: the
\* locals that executeDijkstraInternal creates when it is called.
queryLocals(qs, q) == qs[q].st

\* findPaths up to the loop of the search: the early returns, or the state
\* of the search with the start in the queue.
beginQuery(g, start, target) ==
    IF Len(g) = 0 \/ ~MapHas(g, start)
    THEN [idleQuery EXCEPT !.phase = "done", !.start = start, !.target = target,
                           !.result = err(NodeNotFound(start))]
    ELSE [idleQuery EXCEPT !.phase = "search", !.start = start, !.target = target,
                           !.st = initDijkstra(g, start), !.insertions = 1]

\* One round of the while loop of the search on the locals st.  order is
\* the order of the visited.add calls, insertions the number of the
\* enqueuePriorityQueue calls.
stepQuery(query, st, next) ==
    [query EXCEPT
       !.st = next,
       !.order = IF next.visited # st.visited
                 THEN Append(@, dequeuePriorityQueue(st.queue).item) ELSE @,
       !.insertions = @ + Len(next.queue.items) - Len(st.queue.items) + 1]

\* From the end of the search to the loop of reconstructPathInternal: the
\* errors of a target that is unknown or at Infinity, as findPaths returns
\* them, or the walk that begins at the target.
endSearch(query) ==
    IF query.target \notin DOMAIN query.st.distances
    THEN [query EXCEPT !.phase = "done",
                       !.result = err(NodeNotFound(query.target))]
    ELSE IF query.st.distances[query.target] = PosInf
    THEN [query EXCEPT !.phase = "done",
                       !.result = err(NoPath(query.start, query.target))]
    ELSE [query EXCEPT !.phase = "walk", !.current = query.target]

\* One round of the loop of reconstructPathInternal, or its end.
walkStep(query) ==
    IF query.current = Null
    THEN [query EXCEPT !.phase = "done",
            !.result = ok([path |-> query.path,
                           distance |-> query.st.distances[query.target]])]
    ELSE [query EXCEPT !.path = <<query.current>> \o @,
                       !.current = GetOr(query.st.previous, query.current, Null)]

InitSearch ==
    /\ edges \in SearchEdgeLists
    /\ graphResult = None
    /\ graph = <<>>
    /\ pc = "start"
    /\ pathResult = None
    /\ analysis = None
    /\ calls = <<>>
    /\ queries = <<idleQuery>>
    /\ heap = <<>>
    /\ frontiers = <<>>

InitInterleaved ==
    /\ edges \in CallEdgeLists
    /\ graphResult = None
    /\ graph = <<>>
    /\ pc = "start"
    /\ pathResult = None
    /\ analysis = None
    /\ calls = <<>>
    /\ queries = <<idleQuery, idleQuery>>
    /\ heap = <<>>
    /\ frontiers = <<>>

\* findPaths(graph, start, target) is called.
BeginQuery(q, start, target) ==
    /\ pc = "graph"
    /\ queries[q].phase = "idle"
    /\ queries' = [queries EXCEPT ![q] = beginQuery(graph, start, target)]
    /\ UNCHANGED <<edges, graphResult, graph, pc, pathResult, analysis, calls,
                   heap, frontiers>>

\* A round of while (!isPriorityQueueEmpty(queue)).
SearchStep(q) ==
    /\ queries[q].phase = "search"
    /\ ~isPriorityQueueEmpty(queries[q].st.queue)
    /\ \E st \in {queryLocals(queries, q)} :
          \E next \in {dijkstraStep(graph, st)} :
             queries' = [queries EXCEPT ![q] = stepQuery(@, st, next)]
    /\ UNCHANGED <<edges, graphResult, graph, pc, pathResult, analysis, calls,
                   heap, frontiers>>

\* The queue is empty: the search returns.
EndSearch(q) ==
    /\ queries[q].phase = "search"
    /\ isPriorityQueueEmpty(queries[q].st.queue)
    /\ queries' = [queries EXCEPT ![q] = endSearch(@)]
    /\ UNCHANGED <<edges, graphResult, graph, pc, pathResult, analysis, calls,
                   heap, frontiers>>

\* A round of while (current !== null).
WalkStep(q) ==
    /\ queries[q].phase = "walk"
    /\ queries' = [queries EXCEPT ![q] = walkStep(@)]
    /\ UNCHANGED <<edges, graphResult, graph, pc, pathResult, analysis, calls,
                   heap, frontiers>>

NextSearch ==
    \/ BuildGraph
    \/ NewMap
    \/ \E q \in DOMAIN queries :
          \E start \in QueryNodes(edges), target \in QueryNodes(edges) :
             BeginQuery(q, start, target)
    \/ \E q \in DOMAIN queries : SearchStep(q)
    \/ \E q \in DOMAIN queries : EndSearch(q)
    \/ \E q \in DOMAIN queries : WalkStep(q)

SpecSearch == InitSearch /\ [][NextSearch]_vars

\* The edge lists of the calls that are followed to their end: self-loops,
\* parallel edges and cycles of weight zero among them.
MaxFairEdges == 2

FairEdges ==
    [from : {Str("A"), Str("B")}, to : {Str("A"), Str("B")},
     weight : {Num(0), Num(1)}]

FairEdgeLists == SeqsUpTo(FairEdges, MaxFairEdges) \cup {zeroEdges}

InitFair ==
    /\ edges \in FairEdgeLists
    /\ graphResult = None
    /\ graph = <<>>
    /\ pc = "start"
    /\ pathResult = None
    /\ analysis = None
    /\ calls = <<>>
    /\ queries = <<idleQuery>>
    /\ heap = <<>>
    /\ frontiers = <<>>

\* A round of one of the two loops of a call, or the return between them.
QueryStep == \E q \in DOMAIN queries : SearchStep(q) \/ EndSearch(q) \/ WalkStep(q)

\* A call that has begun runs on: its rounds are taken as long as there is
\* one to take.
SpecSearchFair == InitFair /\ [][NextSearch]_vars /\ WF_vars(QueryStep)

SpecInterleaved == InitInterleaved /\ [][NextSearch]_vars

---------------------------------------------------------------------------
(* The callers of the priority queue                                       *)

MaxQueueOps == 5

Priorities == {Num(1), Num(2)}

\* A queue value that the caller holds: items is the address of its array.
\* The other fields are a record of the call that returned it: the queue
\* value it was called on (from), the array of that queue at the call
\* (before), the item given or returned, the array of the new queue at the
\* return (was), and the items inserted and extracted on the way to it.
queueValue(ref, h, from, op, item, priority, before, inserted, extracted) ==
    [items |-> ref, was |-> h[ref], from |-> from, op |-> op, item |-> item,
     priority |-> priority, before |-> before, inserted |-> inserted,
     extracted |-> extracted]

\* The items are numbered in the order of the insertions.
nextItem(fs) ==
    Num(Cardinality({f \in DOMAIN fs : fs[f].op = "insert"}) + 1)

InitQueue ==
    /\ edges = <<>>
    /\ graphResult = None
    /\ graph = <<>>
    /\ pc = "queue"
    /\ pathResult = None
    /\ analysis = None
    /\ calls = <<>>
    /\ queries = <<>>
    /\ heap = <<>>
    /\ frontiers = <<>>

\* const queue = createPriorityQueue()
CreatePriorityQueue ==
    /\ pc = "queue"
    /\ frontiers = <<>>
    /\ LET r == createOnHeap(heap)
       IN  /\ heap' = r.heap
           /\ frontiers' = <<queueValue(r.items, r.heap, 0, "empty", Undefined,
                                        Null, <<>>, <<>>, <<>>)>>
    /\ UNCHANGED <<edges, graphResult, graph, pc, pathResult, analysis, calls,
                   queries>>

\* const q2 = enqueuePriorityQueue(q, item, priority), q any queue value
\* that the caller holds.
Enqueue(f, priority) ==
    /\ pc = "queue"
    /\ Len(frontiers) <= MaxQueueOps
    /\ LET item == nextItem(frontiers)
           r == enqueueOnHeap(heap, frontiers[f].items, item, priority)
       IN  /\ heap' = r.heap
           /\ frontiers' =
                Append(frontiers,
                       queueValue(r.items, r.heap, f, "insert", item, priority,
                                  heap[frontiers[f].items],
                                  Append(frontiers[f].inserted, item),
                                  frontiers[f].extracted))
    /\ UNCHANGED <<edges, graphResult, graph, pc, pathResult, analysis, calls,
                   queries>>

\* const { item, newQueue } = dequeuePriorityQueue(q)
Dequeue(f) ==
    /\ pc = "queue"
    /\ Len(frontiers) <= MaxQueueOps
    /\ LET r == dequeueOnHeap(heap, frontiers[f].items)
       IN  /\ heap' = r.heap
           /\ frontiers' =
                Append(frontiers,
                       queueValue(r.items, r.heap, f, "extractMin", r.item,
                                  Null, heap[frontiers[f].items],
                                  frontiers[f].inserted,
                                  IF isPriorityQueueEmpty(
                                       [items |-> heap[frontiers[f].items]])
                                  THEN frontiers[f].extracted
                                  ELSE Append(frontiers[f].extracted, r.item)))
    /\ UNCHANGED <<edges, graphResult, graph, pc, pathResult, analysis, calls,
                   queries>>

NextQueue ==
    \/ CreatePriorityQueue
    \/ \E f \in DOMAIN frontiers : \E priority \in Priorities : Enqueue(f, priority)
    \/ \E f \in DOMAIN frontiers : Dequeue(f)

SpecQueue == InitQueue /\ [][NextQueue]_vars

---------------------------------------------------------------------------
(* findPaths: the claims                                                   *)

\* C1: for a graph built by buildGraph and nodes s, t joined by a directed
\* path from s to t, findPaths(g, s, t) succeeds and its distance is the
\* least weight of a directed path from s to t.
C1_DistanceIsShortest ==
    (Queried /\ Built
        /\ SimplePaths(graph, pathResult.start, pathResult.target) # {})
    => /\ isOk(pathResult.result)
       /\ pathResult.result.value.distance =
            Num(ShortestDistance(graph, pathResult.start, pathResult.target))

\* C2: a successful findPaths(g, s, t) returns a simple directed path of g
\* from s to t, and a finite distance >= 0 that is the sum, over the steps
\* of the path, of the least weight among the edges of the step.
C2_PathIsSimpleDirectedPath ==
    (Queried /\ isOk(pathResult.result))
    => LET path == pathResult.result.value.path
           distance == pathResult.result.value.distance
       IN  /\ Len(path) >= 1
           /\ path[1] = pathResult.start
           /\ path[Len(path)] = pathResult.target
           /\ IsSimple(path)
           /\ IsDirectedPath(graph, path)
           /\ isFinite(distance)
           /\ distance.n >= 0
           /\ distance.n = PathWeight(graph, path)

\* C2, its case: a path of three nodes with a distance of 2 or more.
C2_Witness ==
    /\ Queried
    /\ isOk(pathResult.result)
    /\ Len(pathResult.result.value.path) = 3
    /\ pathResult.result.value.distance.n >= 2

\* C3: findPaths(g, s, t) is NoPath{from: s, to: t} exactly when s is a key,
\* t is a key or a destination, and no directed path leads from s to t.
C3_NoPathIffUnreachable ==
    Queried
    => (pathResult.result = err(NoPath(pathResult.start, pathResult.target))
        <=> /\ MapHas(graph, pathResult.start)
            /\ pathResult.target \in KnownNodes(graph)
            /\ SimplePaths(graph, pathResult.start, pathResult.target) = {})

\* C4: findPaths(g, s, t) is NodeNotFound{node: s} whenever g has no keys or
\* s is no key of g, whatever t is.
C4_StartNotFound ==
    (Queried /\ (Len(graph) = 0 \/ pathResult.start \notin MapKeys(graph)))
    => pathResult.result = err(NodeNotFound(pathResult.start))

\* C4, its case: a graph with keys, and s and t two different nodes that
\* are both absent from it.
C4_Witness ==
    /\ Queried
    /\ Len(graph) > 0
    /\ pathResult.start \notin KnownNodes(graph)
    /\ pathResult.target \notin KnownNodes(graph)
    /\ pathResult.start # pathResult.target
    /\ pathResult.result = err(NodeNotFound(pathResult.start))

\* C5: when s is a key of g, findPaths(g, s, t) is NodeNotFound{node: t}
\* exactly when t is neither a key nor the destination of an edge of g.
C5_TargetNotFound ==
    (Queried /\ pathResult.start \in MapKeys(graph))
    => (pathResult.result = err(NodeNotFound(pathResult.target))
        <=> pathResult.target \notin KnownNodes(graph))

\* C5, its case: s is a key and t is neither a key nor a destination.
C5_Witness ==
    /\ Queried
    /\ pathResult.start \in MapKeys(graph)
    /\ pathResult.target \notin KnownNodes(graph)
    /\ pathResult.result = err(NodeNotFound(pathResult.target))

\* C6, as claimed: for a graph with keys and a node s that is a key or a
\* destination, findPaths(g, s, s) is the path [s] of distance 0.
C6_SelfPathOfKnownNode ==
    (Queried /\ Len(graph) > 0
        /\ pathResult.start = pathResult.target
        /\ WellFormedNode(pathResult.start)
        /\ pathResult.start \in KnownNodes(graph))
    => pathResult.result = ok([path |-> <<pathResult.start>>, distance |-> Num(0)])

\* C6, amended: for a well-formed node s that is a key of g (every node of a
\* built graph is), findPaths(g, s, s) is the path [s] of distance 0; a well-
\* formed node that is a destination only gives NodeNotFound{node: s}.
C6_SelfPathOfKey ==
    (Queried /\ pathResult.start = pathResult.target
        /\ WellFormedNode(pathResult.start)
        /\ pathResult.start \in KnownNodes(graph))
    => pathResult.result =
         IF pathResult.start \in MapKeys(graph)
         THEN ok([path |-> <<pathResult.start>>, distance |-> Num(0)])
         ELSE err(NodeNotFound(pathResult.start))

\* C6, its case: s is a key with a self-loop of weight 0.
C6_Witness ==
    /\ Queried
    /\ pathResult.start = pathResult.target
    /\ pathResult.start \in MapKeys(graph)
    /\ 0 \in EdgeWeights(graph, pathResult.start, pathResult.start)
    /\ isOk(pathResult.result)

---------------------------------------------------------------------------
(* buildGraph: the claims                                                  *)

Called == graphResult # None

\* C7: buildGraph returns EmptyGraph for the list of no edges, and for no
\* other list.
C7_EmptyGraphIffNoEdges ==
    Called => (graphResult = err(EmptyGraph) <=> Len(edges) = 0)

C7_Witness == graphResult = err(EmptyGraph) /\ Len(edges) = 0

RECURSIVE EdgesFrom(_, _)
EdgesFrom(es, n) ==
    IF es = <<>> THEN <<>>
    ELSE IF Head(es).from = n THEN <<Head(es)>> \o EdgesFrom(Tail(es), n)
    ELSE EdgesFrom(Tail(es), n)

\* C9: the list of every key n of a built graph is the input edges whose
\* source is n, in input order, parallel edges and self-loops included.
C9_ListsKeepInputOrder ==
    Built
    => \A i \in 1..Len(graphResult.value) :
         graphResult.value[i].edges = EdgesFrom(edges, graphResult.value[i].key)

\* C9, its case: a node with an outgoing edge that is, later in the input,
\* the destination of an edge.
C9_Witness ==
    /\ Built
    /\ \E j, k \in 1..Len(edges) : j < k /\ edges[k].to = edges[j].from
    /\ \E i \in 1..Len(graphResult.value) : Len(graphResult.value[i].edges) >= 1

\* The violation of an edge, by the order of the claim: the node type, then
\* a weight that is no finite number, then a negative weight.
HasBadNode(e) ==
    e.from.t \notin {"string", "number"} \/ e.to.t \notin {"string", "number"}

HasBadWeight(e) == e.weight.t # "number" \/ e.weight.k # "fin"

HasNegativeWeight(e) == e.weight.t = "number" /\ e.weight.k = "fin" /\ e.weight.n < 0

Violates(e) == HasBadNode(e) \/ HasBadWeight(e) \/ HasNegativeWeight(e)

ReasonOf(e) ==
    IF HasBadNode(e) THEN "Invalid node type"
    ELSE IF HasBadWeight(e) THEN "Invalid weight: NaN or Infinity"
    ELSE "Invalid weight: negative value"

FirstViolation(es) ==
    CHOOSE i \in 1..Len(es) : Violates(es[i]) /\ \A j \in 1..(i - 1) : ~Violates(es[j])

\* C10: for a list with edges, buildGraph succeeds exactly when no edge
\* violates validation, and else returns the InvalidGraph of the first
\* violating edge, by the order node type, weight no finite number,
\* negative weight.
C10_FirstViolationDecides ==
    (Called /\ Len(edges) > 0)
    => IF \A i \in 1..Len(edges) : ~Violates(edges[i])
       THEN isOk(graphResult)
       ELSE graphResult = err(InvalidGraph(ReasonOf(edges[FirstViolation(edges)])))

\* C10, its case: the first edge has a negative weight, a later one a node
\* of an invalid type and a weight that is no number.
C10_Witness ==
    /\ Called
    /\ Len(edges) = 2
    /\ HasNegativeWeight(edges[1]) /\ ~HasBadNode(edges[1])
    /\ HasBadNode(edges[2]) /\ HasBadWeight(edges[2])
    /\ graphResult = err(InvalidGraph("Invalid weight: negative value"))

\* C11, as claimed: for a list with an edge of a weight < 0, buildGraph
\* returns InvalidGraph "Invalid weight: negative value".
C11_NegativeWeightAnywhere ==
    (Called /\ \E i \in 1..Len(edges) : HasNegativeWeight(edges[i]))
    => graphResult = err(InvalidGraph("Invalid weight: negative value"))

\* C11, amended: buildGraph returns InvalidGraph "Invalid weight: negative
\* value" for a list whose first violating edge has endpoints of a valid
\* type and a finite weight < 0; an edge of a negative weight that has an
\* endpoint of an invalid type, or that comes after another violating edge,
\* leaves the reason to that earlier check.
C11_FirstViolationNegative ==
    (Called
        /\ \E i \in 1..Len(edges) :
              /\ HasNegativeWeight(edges[i])
              /\ ~HasBadNode(edges[i])
              /\ \A j \in 1..(i - 1) : ~Violates(edges[j]))
    => graphResult = err(InvalidGraph("Invalid weight: negative value"))

\* C11, its case: a valid edge, then an edge of valid endpoints and of a
\* negative weight.
C11_Witness ==
    /\ Called
    /\ Len(edges) = 2
    /\ ~Violates(edges[1])
    /\ HasNegativeWeight(edges[2]) /\ ~HasBadNode(edges[2])
    /\ graphResult = err(InvalidGraph("Invalid weight: negative value"))

\* C12: buildGraph accepts an endpoint exactly when it is a text or a finite
\* number: the first edge with an endpoint that is neither (null, NaN, an
\* infinite number), when no edge before it violates validation, makes
\* buildGraph return InvalidGraph "Invalid node type", and a list of
\* well-formed endpoints never gets that reason.
C12_EndpointAcceptedIffWellFormed ==
    Called
    => /\ (\E i \in 1..Len(edges) :
              /\ ~WellFormedNode(edges[i].from) \/ ~WellFormedNode(edges[i].to)
              /\ \A j \in 1..(i - 1) : ~Violates(edges[j]))
          => graphResult = err(InvalidGraph("Invalid node type"))
       /\ (\A i \in 1..Len(edges) :
              WellFormedNode(edges[i].from) /\ WellFormedNode(edges[i].to))
          => graphResult # err(InvalidGraph("Invalid node type"))

---------------------------------------------------------------------------
(* analyzeGraph: the claims                                                *)

Analyzed == pc = "analyzed"

AnalysisOk == Analyzed /\ isOk(analysis)

\* The places of the components: <<i, j>> is the j-th node of the i-th one.
Places(components) ==
    UNION {{<<i, j>> : j \in 1..Len(components[i])} : i \in 1..Len(components)}

PlacesOf(components, n) ==
    {p \in Places(components) : components[p[1]][p[2]] = n}

\* The places of the stored edges: <<i, j>> is the j-th edge of the i-th key.
EdgePlaces(g) == UNION {{<<i, j>> : j \in 1..Len(g[i].edges)} : i \in 1..Len(g)}

\* C13: in a successful analyzeGraph result the components partition the
\* nodes: every node of the graph (key or destination) is at exactly one
\* place of exactly one component, every member of a component is a node of
\* the graph, no component is empty and the sizes add up to nodeCount.
C13_ComponentsPartitionNodes ==
    AnalysisOk
    => LET components == analysis.value.components
       IN  /\ \A n \in KnownNodes(graph) :
                 Cardinality(PlacesOf(components, n)) = 1
           /\ \A p \in Places(components) :
                 components[p[1]][p[2]] \in KnownNodes(graph)
           /\ \A i \in 1..Len(components) : components[i] # <<>>
           /\ Cardinality(Places(components)) = analysis.value.nodeCount

\* C13, its case: three edges or more, two components or more, one of them
\* of two nodes or more, and a node that is the destination of two edges.
C13_Witness ==
    /\ AnalysisOk
    /\ Cardinality(EdgePlaces(graph)) >= 3
    /\ Len(analysis.value.components) >= 2
    /\ \E i \in 1..Len(analysis.value.components) :
          Len(analysis.value.components[i]) >= 2
    /\ \E p, q \in EdgePlaces(graph) :
          /\ p # q
          /\ graph[p[1]].edges[p[2]].to = graph[q[1]].edges[q[2]].to

\* The nodes one undirected step away from a node of S, and S.
WeakStep(g, S) ==
    S \cup {g[p[1]].edges[p[2]].to : p \in {q \in EdgePlaces(g) : g[q[1]].key \in S}}
      \cup {g[p[1]].key : p \in {q \in EdgePlaces(g) : g[q[1]].edges[q[2]].to \in S}}

\* The nodes joined to a node of S by a path of undirected steps.
RECURSIVE WeakReach(_, _)
WeakReach(g, S) == IF WeakStep(g, S) = S THEN S ELSE WeakReach(g, WeakStep(g, S))

SameComponent(components, a, b) ==
    \E i \in 1..Len(components) :
        /\ \E j \in 1..Len(components[i]) : components[i][j] = a
        /\ \E j \in 1..Len(components[i]) : components[i][j] = b

\* C14: analyzeGraph puts two nodes in the same component exactly when a
\* path joins them in the graph read as undirected (neither the direction
\* of an edge, nor its weight, nor parallel edges, nor self-loops matter).
C14_ComponentsAreWeakComponents ==
    AnalysisOk
    => \A a, b \in KnownNodes(graph) :
          SameComponent(analysis.value.components, a, b)
          <=> b \in WeakReach(graph, {a})

\* C15: in a successful analyzeGraph result isConnected is true exactly
\* when there is one component and it holds all the nodes of the graph.
C15_ConnectedIffOneComponent ==
    AnalysisOk
    => (analysis.value.isConnected
        <=> /\ Len(analysis.value.components) = 1
            /\ {analysis.value.components[1][j] :
                   j \in 1..Len(analysis.value.components[1])} = KnownNodes(graph))

\* C15, its case: a graph of two components, reported as not connected.
C15_Witness ==
    /\ AnalysisOk
    /\ Len(analysis.value.components) = 2
    /\ analysis.value.isConnected = FALSE

\* C16: nodeCount is the number of the distinct nodes that are a key or the
\* destination of a stored edge, and edgeCount the number of the stored
\* edges (each parallel edge and each self-loop counts once).
C16_CountsOfNodesAndEdges ==
    AnalysisOk
    => /\ analysis.value.nodeCount = Cardinality(KnownNodes(graph))
       /\ analysis.value.edgeCount = Cardinality(EdgePlaces(graph))

\* C16, its case: a graph with a destination that is no key, with two
\* parallel edges and with a self-loop.
C16_Witness ==
    /\ AnalysisOk
    /\ MapDestinations(graph) \ MapKeys(graph) # {}
    /\ \E p, q \in EdgePlaces(graph) :
          /\ p # q
          /\ p[1] = q[1]
          /\ graph[p[1]].edges[p[2]].to = graph[q[1]].edges[q[2]].to
    /\ \E p \in EdgePlaces(graph) : graph[p[1]].edges[p[2]].to = graph[p[1]].key
    /\ analysis.value.nodeCount = 2
    /\ analysis.value.edgeCount = 3

\* x <= y for two sequences of binary digits of one length.
BitsLeq(x, y) ==
    \/ x = y
    \/ \E i \in 1..Len(x) : x[i] < y[i] /\ \A j \in 1..(i - 1) : x[j] = y[j]

\* a <= b for two doubles that are not negative.
DoubleLeq(a, b) ==
    \/ a.bits = <<>>
    \/ /\ b.bits # <<>>
       /\ a.exp < b.exp \/ (a.exp = b.exp /\ BitsLeq(a.bits, b.bits))

\* Natural numbers of any size, as their binary digits without a leading 0.
NatLeq(x, y) == Len(x) < Len(y) \/ (Len(x) = Len(y) /\ BitsLeq(x, y))

\* x + k for a small k.
NatPlus(x, k) == timesPlus(x, 1, k)

\* d is the double next to the exact num / den: with M the 53 digits of d
\* read as a number, |2 * M * den - 2 * num * 2^(52 - d.exp)| <= den, and
\* M is even when d lies half way between two doubles.
IsNearestDouble(d, num, den) ==
    IF num = 0 THEN d = DoubleZero
    ELSE /\ Len(d.bits) = MantissaBits
         /\ d.bits[1] = 1
         /\ d.exp < MantissaBits
         /\ LET x == timesBits(d.bits, 2 * den)
                y == binaryDigits(2 * num)
                        \o [i \in 1..(MantissaBits - 1 - d.exp) |-> 0]
            IN  /\ NatLeq(x, NatPlus(y, den))
                /\ NatLeq(y, NatPlus(x, den))
                /\ (x = NatPlus(y, den) \/ y = NatPlus(x, den))
                   => d.bits[MantissaBits] = 0

\* No two stored edges with the same endpoints and no self-loop.
IsSimpleGraph(g) ==
    /\ \A p, q \in EdgePlaces(g) :
          (p # q /\ p[1] = q[1])
          => g[p[1]].edges[p[2]].to # g[q[1]].edges[q[2]].to
    /\ \A p \in EdgePlaces(g) : g[p[1]].edges[p[2]].to # g[p[1]].key

\* C17, as claimed: the density of a successful analyzeGraph result of a
\* graph built by buildGraph lies in [0, 1].
C17_DensityInUnitInterval ==
    (AnalysisOk /\ Built)
    => /\ DoubleLeq(DoubleZero, analysis.value.density)
       /\ DoubleLeq(analysis.value.density, doubleOfInt(1))

\* C17, amended: the density is never negative, and it lies in [0, 1]
\* for a graph without parallel edges and without self-loops; with them it
\* can be above 1, as it is not capped.
C17_DensityOfSimpleGraph ==
    AnalysisOk
    => /\ DoubleLeq(DoubleZero, analysis.value.density)
       /\ IsSimpleGraph(graph)
          => /\ DoubleLeq(analysis.value.density, doubleOfInt(1))
             /\ (analysis.value.nodeCount > 1
                 => analysis.value.edgeCount
                      <= analysis.value.nodeCount * (analysis.value.nodeCount - 1))

\* C17, its case: a complete graph of three nodes, of density 1.
C17_Witness ==
    /\ AnalysisOk
    /\ IsSimpleGraph(graph)
    /\ analysis.value.nodeCount = 3
    /\ analysis.value.edgeCount = 6
    /\ analysis.value.density = doubleOfInt(1)

\* C18, as claimed: the density is 0 when nodeCount <= 1, and else a number
\* d with d * nodeCount * (nodeCount - 1) = edgeCount.
C18_DensityTimesPairsIsEdgeCount ==
    AnalysisOk
    => IF analysis.value.nodeCount <= 1
       THEN analysis.value.density = DoubleZero
       ELSE multiplyDouble(
                multiplyDouble(analysis.value.density, analysis.value.nodeCount),
                analysis.value.nodeCount - 1)
            = doubleOfInt(analysis.value.edgeCount)

\* C18, amended: the density is 0 when nodeCount <= 1 (also with self-
\* loops), and else the double next to the exact quotient
\* edgeCount / (nodeCount * (nodeCount - 1)), not capped; the product
\* d * nodeCount * (nodeCount - 1) is edgeCount up to rounding only.
C18_DensityIsNearestQuotient ==
    AnalysisOk
    => IF analysis.value.nodeCount <= 1
       THEN analysis.value.density = DoubleZero
       ELSE IsNearestDouble(analysis.value.density, analysis.value.edgeCount,
                analysis.value.nodeCount * (analysis.value.nodeCount - 1))

\* C18, its case: six nodes and three edges, where the density times 6
\* times 5 is not 3.
C18_Witness ==
    /\ AnalysisOk
    /\ analysis.value.nodeCount = 6
    /\ analysis.value.edgeCount = 3
    /\ multiplyDouble(multiplyDouble(analysis.value.density, 6), 5) # doubleOfInt(3)

\* C19: analyzeGraph returns the error EmptyGraph exactly when the graph has
\* no key, and a success for every graph with a key.
C19_EmptyGraphIffNoKeys ==
    Analyzed
    => /\ analysis = err(EmptyGraph) <=> Len(graph) = 0
       /\ Len(graph) >= 1 => isOk(analysis)

\* C19, its case: analyzeGraph(new Map()).
C19_Witness ==
    /\ Analyzed
    /\ MapKeys(graph) = {}
    /\ analysis = err(EmptyGraph)

---------------------------------------------------------------------------
(* Several calls on one graph: the claims                                  *)

---------------------------------------------------------------------------
(* findPaths step by step: the claims                                      *)

\* C22: when the rounds of two findPaths queries on one Graph are taken in
\* any interleaving, each query ends with the result that it has when it
\* runs alone (no query reads or writes the distances, the predecessors,
\* the visited set or the queue of the other).
C22_InterleavedQueryAsAlone ==
    \A q \in DOMAIN queries :
        queries[q].phase = "done"
        => queries[q].result =
             findPaths(graph, queries[q].start, queries[q].target)

\* C22, its case: two queries from different starts are both in the middle
\* of their searches: each has visited a node and has items in its queue,
\* and the first one has visited a node that is still in the queue of the
\* second.
C22_Witness ==
    /\ Len(queries) = 2
    /\ queries[1].phase = "search" /\ queries[2].phase = "search"
    /\ queries[1].start # queries[2].start
    /\ queries[1].order # <<>> /\ queries[2].order # <<>>
    /\ \E i \in 1..Len(queries[2].st.queue.items) :
          queries[2].st.queue.items[i].item \in queries[1].st.visited

\* The place of node n in the order of the visits (0: not visited).
VisitIndex(order, n) ==
    IF \E i \in 1..Len(order) : order[i] = n
    THEN CHOOSE i \in 1..Len(order) : order[i] = n
    ELSE 0

Searching(q) == queries[q].phase = "search"

\* The query has its search state: it searches, walks back or is done
\* after a search.
HasSearched(q) == queries[q].phase # "idle" /\ queries[q].st # None

\* C24, the rounds: over a round of the search the recorded distance or
\* predecessor of a node changes only to a strictly smaller distance, and
\* then the predecessor is the node that the round has visited.
C24_ChangeOnlyIfStrictlyLess ==
    \A q \in DOMAIN queries :
        (Searching(q) /\ queries'[q].phase = "search")
        => \A n \in DOMAIN queries[q].st.distances :
              (\/ queries'[q].st.distances[n] # queries[q].st.distances[n]
               \/ queries'[q].st.previous[n] # queries[q].st.previous[n])
              => /\ NumLess(queries'[q].st.distances[n], queries[q].st.distances[n])
                 /\ Len(queries'[q].order) = Len(queries[q].order) + 1
                 /\ queries'[q].st.previous[n]
                      = queries'[q].order[Len(queries'[q].order)]

\* C24, the record: the predecessor u of a node v is a visited node with an
\* edge to v that gives v its recorded distance, and every node visited
\* before u offered v a greater distance: u was the first to offer it.
C24_FirstOfferStays ==
    \A q \in DOMAIN queries :
        HasSearched(q)
        => LET st == queries[q].st
               order == queries[q].order
           IN  \A v \in DOMAIN st.previous :
                  st.previous[v] # Null
                  => LET u == st.previous[v]
                     IN  /\ VisitIndex(order, u) > 0
                         /\ \E w \in EdgeWeights(graph, u, v) :
                               st.distances[v] = Num(st.distances[u].n + w)
                         /\ \A i \in 1..(VisitIndex(order, u) - 1) :
                               \A w \in EdgeWeights(graph, order[i], v) :
                                  st.distances[order[i]].n + w > st.distances[v].n

\* C24: the recorded predecessor and distance of a node change only for a
\* candidate strictly less than the recorded distance, an equal candidate
\* changes neither; so each node keeps the predecessor that was the first
\* to offer its least distance (by the order of the visits).
C24_StrictlyLessTieBreak ==
    []C24_FirstOfferStays /\ [][C24_ChangeOnlyIfStrictlyLess]_vars

\* C24, its case: a node v whose predecessor u was visited before a node
\* u2 that has an edge to v offering the same distance, v not yet visited.
C24_Witness ==
    /\ Len(queries) = 1
    /\ queries[1].phase = "done"
    /\ isOk(queries[1].result)
    /\ \E v \in DOMAIN queries[1].st.previous :
          /\ queries[1].st.previous[v] # Null
          /\ \E i \in 1..Len(queries[1].order) :
                /\ i > VisitIndex(queries[1].order, queries[1].st.previous[v])
                /\ i < VisitIndex(queries[1].order, v)
                /\ \E w \in EdgeWeights(graph, queries[1].order[i], v) :
                      queries[1].st.distances[queries[1].order[i]].n + w
                        = queries[1].st.distances[v].n
          /\ v = queries[1].target

\* C25, the rounds: a round visits at most one node; a round that takes a
\* stale entry (of a visited node) changes the frontier only; the recorded
\* distance and predecessor of a visited node stay as they are.
C25_VisitedIsFinal ==
    \A q \in DOMAIN queries :
        (Searching(q) /\ queries'[q].phase = "search")
        => LET st == queries[q].st
               next == queries'[q].st
               taken == dequeuePriorityQueue(st.queue)
           IN  /\ st.visited \subseteq next.visited
               /\ Cardinality(next.visited) <= Cardinality(st.visited) + 1
               /\ \A n \in st.visited :
                     /\ next.distances[n] = st.distances[n]
                     /\ next.previous[n] = st.previous[n]
               /\ taken.item \in st.visited
                  => /\ next = [st EXCEPT !.queue = taken.newQueue]
                     /\ queries'[q].order = queries[q].order

\* C25, the visits: no node is visited twice, and the recorded distance of
\* a visited node is its shortest distance from the source.
C25_VisitedAtShortestDistance ==
    \A q \in DOMAIN queries :
        HasSearched(q)
        => LET st == queries[q].st
               order == queries[q].order
           IN  /\ \A i, j \in 1..Len(order) : order[i] = order[j] => i = j
               /\ {order[i] : i \in 1..Len(order)} = st.visited
               /\ \A n \in st.visited :
                     st.distances[n]
                       = Num(ShortestDistance(graph, queries[q].start, n))

\* C25: every node is expanded at most once, stale entries are skipped
\* without effect, a visited node's distance and predecessor never change,
\* and a node is visited at its true shortest distance from the source.
C25_ExpandedOnceAtShortestDistance ==
    []C25_VisitedAtShortestDistance /\ [][C25_VisitedIsFinal]_vars

\* The number of edges that the graph stores.
StoredEdges(g) == calculateEdgeCount(g)

\* C26, the counts: a query inserts into the frontier at most once for the
\* source and once for each stored edge, and the walk back from the target
\* takes at most as many nodes as the graph has.
C26_InsertionsAndWalkBounded ==
    \A q \in DOMAIN queries :
        queries[q].phase # "idle"
        => /\ queries[q].insertions <= 1 + StoredEdges(graph)
           /\ Len(queries[q].path) <= Cardinality(KnownNodes(graph))
           /\ (queries[q].phase = "done" /\ isOk(queries[q].result))
              => queries[q].result.value.path[1] = queries[q].start

\* C26: every call ends (weights are not negative): the frontier becomes
\* empty and the walk back reaches the source, within the counts above.
C26_FindPathsTerminates ==
    /\ []C26_InsertionsAndWalkBounded
    /\ (queries[1].phase = "search") ~> (queries[1].phase # "search")
    /\ (queries[1].phase = "walk") ~> (queries[1].phase = "done")

\* C26, its case: a finished call that has visited the nodes of a cycle of
\* weight zero (a self-loop of weight zero is one) and has found a path.
C26_Witness ==
    /\ Len(queries) = 1
    /\ queries[1].phase = "done"
    /\ isOk(queries[1].result)
    /\ queries[1].insertions >= 2
    /\ \E u, v \in queries[1].st.visited :
          /\ 0 \in EdgeWeights(graph, u, v)
          /\ 0 \in EdgeWeights(graph, v, u)

---------------------------------------------------------------------------
(* findPaths on a graph written by hand: the claims                        *)

\* A node that the graph has as a destination of an edge but not as a key.
DestinationOnly(g, n) == n \in MapDestinations(g) \ MapKeys(g)

\* C27: on a graph not made by buildGraph, a target that is a destination
\* only is a known node without outgoing edges: from a source that is a key
\* it is found with its shortest path and distance if a directed path leads
\* to it, and NoPath (not NodeNotFound) is returned if none does.
C27_DestinationOnlyTargetIsKnown ==
    (Queried /\ ~Built
        /\ MapHas(graph, pathResult.start)
        /\ DestinationOnly(graph, pathResult.target))
    => /\ neighborsOf(graph, pathResult.target) = <<>>
       /\ IF SimplePaths(graph, pathResult.start, pathResult.target) # {}
          THEN /\ isOk(pathResult.result)
               /\ pathResult.result.value.distance =
                    Num(ShortestDistance(graph, pathResult.start,
                                         pathResult.target))
               /\ pathResult.result.value.path
                    \in SimplePaths(graph, pathResult.start, pathResult.target)
               /\ PathWeight(graph, pathResult.result.value.path)
                    = pathResult.result.value.distance.n
          ELSE pathResult.result
                 = err(NoPath(pathResult.start, pathResult.target))

---------------------------------------------------------------------------
(* findPaths and the names of the nodes: the claims                        *)

\* Renamings of nodes: 0 to a text, a text to the empty text, and the
\* numbers 1, 2, 3 to 0, 1, 2.
Renamings ==
    {(Num(0) :> Str("Z")),
     (Str("A") :> Str("")),
     (Num(1) :> Num(0)) @@ (Num(2) :> Num(1)) @@ (Num(3) :> Num(2))}

renameNode(f, n) == IF n \in DOMAIN f THEN f[n] ELSE n

renameEdges(f, es) ==
    [i \in 1..Len(es) |->
        [es[i] EXCEPT !.from = renameNode(f, @), !.to = renameNode(f, @)]]

renameResult(f, r) ==
    IF isOk(r)
    THEN ok([path |-> [i \in 1..Len(r.value.path) |-> renameNode(f, r.value.path[i])],
             distance |-> r.value.distance])
    ELSE IF r.error.type = "NodeNotFound"
    THEN err(NodeNotFound(renameNode(f, r.error.node)))
    ELSE err(NoPath(renameNode(f, r.error.from), renameNode(f, r.error.to)))

\* f gives different names to different nodes of S.
IsInjectiveOn(f, S) ==
    \A m, n \in S : renameNode(f, m) = renameNode(f, n) => m = n

\* C23: findPaths treats all well-formed nodes alike, 0 and "" too: with
\* the nodes of the edge list, the source and the target renamed one to
\* one, the result is the renamed result; so the list (0,1,5), (1,2,3)
\* gives for 0 and 2 the path 0, 1, 2 of distance 8.
C23_RenamingChangesNamesOnly ==
    (Queried /\ Built
        /\ \A n \in Endpoints(edges) : WellFormedNode(n))
    => \A f \in Renamings :
          IsInjectiveOn(f, Endpoints(edges)
                              \cup {pathResult.start, pathResult.target})
          => findPaths(buildGraph(renameEdges(f, edges)).value,
                       renameNode(f, pathResult.start),
                       renameNode(f, pathResult.target))
             = renameResult(f, pathResult.result)

---------------------------------------------------------------------------
(* The priority queue: the claims                                          *)

\* The array of the queue value f as it is now.
ItemsOf(f) == heap[frontiers[f].items]

Items(a) == {a[i].item : i \in 1..Len(a)}

\* Priority order, and among equal priorities the order of the insertions
\* (the items are numbered in that order).
InQueueOrder(a) ==
    \A i, j \in 1..Len(a) :
        i < j => /\ ~NumLess(a[j].priority, a[i].priority)
                 /\ a[i].priority = a[j].priority => a[i].item.n < a[j].item.n

\* C28: after any inserts and extractMins from empty(), the items of every
\* frontier are in non-decreasing priority order, and those of one priority
\* are in the order of their insertion.
C28_SortedAndStable ==
    \A f \in DOMAIN frontiers :
        InQueueOrder(frontiers[f].was) /\ InQueueOrder(ItemsOf(f))

\* C28, its case: a frontier returned by extractMin that holds two items
\* of one priority, after an item of a smaller priority was inserted later
\* than an item of a greater one.
C28_Witness ==
    \E f \in DOMAIN frontiers :
        /\ frontiers[f].op = "extractMin"
        /\ \E i, j \in 1..Len(ItemsOf(f)) :
              i < j /\ ItemsOf(f)[i].priority = ItemsOf(f)[j].priority
        /\ \E i, j \in 1..Len(frontiers[f].before) :
              /\ NumLess(frontiers[f].before[i].priority,
                         frontiers[f].before[j].priority)
              /\ frontiers[f].before[i].item.n > frontiers[f].before[j].item.n

\* The item of a least priority and, among those, the first inserted.
IsMinimalEarliest(a, i) ==
    \A j \in 1..Len(a) :
        /\ ~NumLess(a[j].priority, a[i].priority)
        /\ (a[j].priority = a[i].priority /\ j # i) => a[i].item.n < a[j].item.n

\* C29, one call: extractMin on a frontier with items returns the item of
\* least priority that was inserted first, and a frontier of exactly the
\* other items; on an empty frontier no item and an empty frontier.
ExtractedTheMinimum(r) ==
    IF r.before = <<>>
    THEN r.item = Undefined /\ r.was = <<>>
    ELSE \E i \in 1..Len(r.before) :
            /\ r.item = r.before[i].item
            /\ IsMinimalEarliest(r.before, i)
            /\ Len(r.was) = Len(r.before) - 1
            /\ {r.was[k] : k \in 1..Len(r.was)}
                 = {r.before[k] : k \in 1..Len(r.before)} \ {r.before[i]}

\* C29, the items of a frontier: those inserted on the way to it are the
\* extracted ones and the present ones, each of them once.
EachItemOnce(r) ==
    /\ Items(r.was) \cup {r.extracted[k] : k \in 1..Len(r.extracted)}
         = {r.inserted[k] : k \in 1..Len(r.inserted)}
    /\ Len(r.was) + Len(r.extracted) = Len(r.inserted)
    /\ r.was = <<>>
       => \A x \in {r.inserted[k] : k \in 1..Len(r.inserted)} :
             Cardinality({k \in 1..Len(r.extracted) : r.extracted[k] = x}) = 1

\* C29: extractMin returns the minimal, earliest inserted item and the
\* frontier of the remaining items (no item and an empty frontier on an
\* empty one), and every inserted item is extracted exactly once before the
\* frontier is empty.
C29_ExtractMinReturnsMinimum ==
    \A f \in DOMAIN frontiers :
        /\ frontiers[f].op = "extractMin" => ExtractedTheMinimum(frontiers[f])
        /\ EachItemOnce(frontiers[f])

\* C29, its case: a frontier emptied by extractMin after two items of one
\* priority were inserted, and an extractMin on an empty frontier.
C29_Witness ==
    /\ \E f \in DOMAIN frontiers :
          /\ frontiers[f].op = "extractMin"
          /\ frontiers[f].before # <<>>
          /\ frontiers[f].was = <<>>
          /\ Len(frontiers[f].extracted) = 2
          /\ \E g \in DOMAIN frontiers :
                /\ frontiers[f].from = g
                /\ Len(frontiers[g].before) = 2
                /\ frontiers[g].before[1].priority = frontiers[g].before[2].priority
    /\ \E f \in DOMAIN frontiers :
          frontiers[f].op = "extractMin" /\ frontiers[f].before = <<>>

\* C30: insert and extractMin leave the frontier given to them as it was:
\* every frontier value holds the items, in the order, that it held when it
\* was returned, and extractMin on it gives the same item and the same
\* remaining items every time.
C30_InputFrontierUnchanged ==
    /\ \A f \in DOMAIN frontiers : ItemsOf(f) = frontiers[f].was
    /\ \A f, g \in DOMAIN frontiers :
          (frontiers[f].from = frontiers[g].from
              /\ frontiers[f].op = "extractMin" /\ frontiers[g].op = "extractMin")
          => /\ frontiers[f].item = frontiers[g].item
             /\ frontiers[f].was = frontiers[g].was

\* C30, its case: a frontier with items that was given to extractMin, then
\* to insert, and then to extractMin again.
C30_Witness ==
    \E f, g, h \in DOMAIN frontiers :
        /\ f < g /\ g < h
        /\ frontiers[f].from = frontiers[g].from
        /\ frontiers[g].from = frontiers[h].from
        /\ frontiers[f].op = "extractMin"
        /\ frontiers[g].op = "insert"
        /\ frontiers[h].op = "extractMin"
        /\ frontiers[f].before # <<>>

====
